---- MODULE Spec2Model ----
(***************************************************************************)
(* Model of main() in src/main.py, the command line entry point of the     *)
(* fake news classifier: mode selection, the three startup checks, the     *)
(* run directory setup and the init / train / test / plot steps.           *)
(*                                                                         *)
(* The parsed command line is the record args.  The calls main makes into  *)
(* utils, preprocessing, training, os, random and torch are recorded, in   *)
(* order, in the sequence calls; logging calls are recorded in logged.     *)
(* Library calls are taken to return normally.                             *)
(***************************************************************************)
EXTENDS Integers, Sequences, FiniteSets, TLC

VARIABLES args, dirExists, pc, exitStatus, calls, logged, training_data

vars == <<args, dirExists, pc, exitStatus, calls, logged, training_data>>

\* Largest EPOCH value of --load that is enumerated.
MaxEpoch == 1

\* args.load: <<>> is None (option absent), <<e>> is --load e.
LoadValues == {<<>>} \cup {<<e>> : e \in 0..MaxEpoch}

\* The namespace returned by parser.parse_args(), restricted to the options
\* main() itself branches on.
ArgsSpace ==
  [init : BOOLEAN, train : BOOLEAN, test : BOOLEAN, plot : BOOLEAN,
   save : BOOLEAN, load : LoadValues]

\* One recorded call; epoch is the EPOCH argument of utils.load_model and
\* <<>> for every other call.
Call(fn) == [fn |-> fn, epoch |-> <<>>]

LoadCall(e) == [fn |-> "load_model", epoch |-> e]

Init ==
  /\ args \in ArgsSpace
  /\ dirExists \in BOOLEAN
  /\ pc = "start"
  /\ exitStatus = 0
  /\ calls = <<>>
  /\ logged = <<>>
  /\ training_data = "None"

\* exit(1)
Exit1 ==
  /\ pc' = "exited"
  /\ exitStatus' = 1

\* line 66: no mode specified
NoModeSpecified_m(a) == ~(a.init \/ a.train) /\ ~a.test /\ a.plot

NoModeSpecified(a) == ~a.init /\ ~a.train /\ ~a.test /\ ~a.plot

\* lines 65-70
CheckMode ==
  /\ pc = "start"
  /\ IF NoModeSpecified(args)
       THEN /\ logged' = Append(logged, "error: No mode specified")
            /\ Exit1
       ELSE /\ pc' = "chkdir"
            /\ UNCHANGED <<logged, exitStatus>>
  /\ UNCHANGED <<args, dirExists, calls, training_data>>

\* lines 72-73: the left operand of "and"; os.path.isdir is evaluated only
\* when it is true.
NeedsRunDir_m(a) == a.load # <<>> /\ (a.plot /\ ~a.train)

NeedsRunDir(a) == a.load # <<>> \/ (a.plot /\ ~a.train)

\* lines 71-78
CheckRunDir ==
  /\ pc = "chkdir"
  /\ IF NeedsRunDir(args)
       THEN /\ calls' = Append(calls, Call("isdir"))
            /\ IF ~dirExists
                 THEN /\ logged' = Append(logged, "error: Could not find directory")
                      /\ Exit1
                 ELSE /\ pc' = "chktest"
                      /\ UNCHANGED <<logged, exitStatus>>
       ELSE /\ pc' = "chktest"
            /\ UNCHANGED <<calls, logged, exitStatus>>
  /\ UNCHANGED <<args, dirExists, training_data>>

\* line 80
TestWithoutModel_m(a) == a.test /\ ~a.train /\ a.load # <<>>

TestWithoutModel(a) == a.test /\ ~(a.train \/ a.load # <<>>)

\* lines 79-84
CheckTest ==
  /\ pc = "chktest"
  /\ IF TestWithoutModel(args)
       THEN /\ logged' = Append(logged, "error: Cannot run --test without a model")
            /\ Exit1
       ELSE /\ pc' = "setup"
            /\ UNCHANGED <<logged, exitStatus>>
  /\ UNCHANGED <<args, dirExists, calls, training_data>>

\* lines 87-88
ShouldSetupRunDir_m(a) == a.save /\ ~a.init

ShouldSetupRunDir(a) ==
  a.save /\ ~(a.init /\ ~(a.train \/ a.test \/ a.plot))

\* lines 86-92
SetupRunDir ==
  /\ pc = "setup"
  /\ IF ShouldSetupRunDir(args)
       THEN /\ calls' = calls \o <<Call("save_config"), Call("makedirs"),
                                   Call("addHandler")>>
            /\ dirExists' = TRUE      \* os.makedirs(..., exist_ok=True)
       ELSE UNCHANGED <<calls, dirExists>>
  /\ pc' = "seed"
  /\ UNCHANGED <<args, exitStatus, logged, training_data>>

\* lines 94-99
SetSeeds ==
  /\ pc = "seed"
  /\ calls' = calls \o <<Call("random.seed"), Call("torch.manual_seed")>>
  /\ training_data' = "None"
  /\ pc' = "init"
  /\ UNCHANGED <<args, dirExists, exitStatus, logged>>

\* lines 101-113
PerformInit ==
  /\ pc = "init"
  /\ IF args.init \/ args.train \/ args.test
       THEN calls' = calls \o <<Call("get_dataset"), Call("dataset.load"),
                                Call("GloVe"), Call("get_samples"),
                                Call("shuffle")>>
       ELSE UNCHANGED calls
  /\ pc' = "setupTT"
  /\ UNCHANGED <<args, dirExists, exitStatus, logged, training_data>>

\* line 139
ShouldLoadModel_m(a) == a.load # <<>> /\ a.load[1] # 0

ShouldLoadModel(a) == a.load # <<>>

\* lines 115-140
SetupTrainTest ==
  /\ pc = "setupTT"
  /\ IF args.train \/ args.test
       THEN calls' = calls \o <<Call("get_data_loader"), Call("splits"),
                                Call("DataLoader"), Call("get_model")>>
                           \o (IF ShouldLoadModel(args)
                                 THEN <<LoadCall(args.load)>>
                                 ELSE <<>>)
       ELSE UNCHANGED calls
  /\ pc' = "train"
  /\ UNCHANGED <<args, dirExists, exitStatus, logged, training_data>>

\* lines 142-144; what training.train returns is not decided by main.py
RunTrain ==
  /\ pc = "train"
  /\ IF args.train
       THEN /\ calls' = Append(calls, Call("train"))
            /\ training_data' \in {"trained", "None"}
       ELSE UNCHANGED <<calls, training_data>>
  /\ pc' = "test"
  /\ UNCHANGED <<args, dirExists, exitStatus, logged>>

\* lines 146-155
RunTest ==
  /\ pc = "test"
  /\ IF args.test
       THEN IF args.train \/ args.load # <<>>
              THEN /\ calls' = calls \o <<Call("get_criterion"), Call("evaluate")>>
                   /\ logged' = Append(logged, "info: Testing accuracy")
                   /\ pc' = "plot"
                   /\ UNCHANGED exitStatus
              ELSE /\ logged' = Append(logged, "error: No model loaded for testing")
                   /\ Exit1
                   /\ UNCHANGED calls
       ELSE /\ pc' = "plot"
            /\ UNCHANGED <<calls, logged, exitStatus>>
  /\ UNCHANGED <<args, dirExists, training_data>>

\* lines 157-163
RunPlot ==
  /\ pc = "plot"
  /\ IF args.plot
       THEN /\ IF training_data = "None"
                 THEN /\ calls' = calls \o <<Call("load_training_data"), Call("plot")>>
                      /\ training_data' = "loaded"
                 ELSE /\ calls' = Append(calls, Call("plot"))
                      /\ UNCHANGED training_data
            /\ logged' = Append(logged, "info: Plotting training data")
       ELSE UNCHANGED <<calls, logged, training_data>>
  /\ pc' = "done"
  /\ UNCHANGED <<args, dirExists, exitStatus>>

Next ==
  \/ CheckMode
  \/ CheckRunDir
  \/ CheckTest
  \/ SetupRunDir
  \/ SetSeeds
  \/ PerformInit
  \/ SetupTrainTest
  \/ RunTrain
  \/ RunTest
  \/ RunPlot

Spec == Init /\ [][Next]_vars

-----------------------------------------------------------------------------
(* Vocabulary of the properties *)

\* fn was called at least once so far.
Called(fn) == \E i \in 1..Len(calls) : calls[i].fn = fn

\* Number of calls of fn so far.
NumCalls(fn) == Cardinality({i \in 1..Len(calls) : calls[i].fn = fn})

\* Positions reached only after all three startup checks passed.
PastStartup == {"setup", "seed", "init", "setupTT", "train", "test", "plot", "done"}

\* Positions after the run directory step (lines 86-92) has been executed.
PastSetup == PastStartup \ {"setup"}

\* Calls of the training, evaluation and plotting steps.
StepFns == {"train", "evaluate", "plot"}

\* Every call with an effect outside the startup checks.
NoEffectYet == \A i \in 1..Len(calls) : calls[i].fn = "isdir"

-----------------------------------------------------------------------------
\* C1: with none of --init, --train, --test, --plot, main makes no call at
\* all (no run directory or config, no seed, no dataset, no training,
\* evaluation or plotting) and its first step exits with status 1, whatever
\* --load, --save and the run directory are.
C1_NoModeExitsFirst ==
  (~args.init /\ ~args.train /\ ~args.test /\ ~args.plot)
    => /\ calls = <<>>
       /\ pc \in {"start", "exited"}
       /\ (pc = "exited" => exitStatus = 1)

C1_Witness ==
  /\ ~args.init /\ ~args.train /\ ~args.test /\ ~args.plot
  /\ args.load # <<>> /\ ~args.save /\ dirExists
  /\ pc = "exited" /\ exitStatus = 1
  /\ logged = <<"error: No mode specified">>

\* C2: an invocation with --test but neither --train nor --load never gets
\* past the startup checks: it ends with exit status 1, and the run
\* directory is not set up, the dataset not loaded, no model created or
\* evaluated.
C2_TestNeedsModel ==
  (args.test /\ ~args.train /\ args.load = <<>>)
    => /\ pc \notin PastStartup
       /\ NoEffectYet
       /\ (pc = "exited" => exitStatus = 1)

C2_Witness ==
  /\ args.test /\ ~args.train /\ args.load = <<>>
  /\ pc = "exited" /\ exitStatus = 1
  /\ logged = <<"error: Cannot run --test without a model">>

\* C3: (a) with --load, or --plot without --train, and no run directory,
\* main exits with status 1 at the directory check, having created no
\* directory, saved no config, loaded nothing and plotted nothing;
\* (b) with neither, the directory is never looked up and main never
\* reports it missing.
C3_RunDirRequired ==
  LET need == args.load # <<>> \/ (args.plot /\ ~args.train) IN
  /\ (need /\ ~dirExists)
       => /\ pc \in {"start", "chkdir", "exited"}
          /\ NoEffectYet
          /\ (pc = "exited" => exitStatus = 1)
  /\ ~need
       => /\ ~Called("isdir")
          /\ \A i \in 1..Len(logged) : logged[i] # "error: Could not find directory"

C3_Witness ==
  /\ args.load # <<>> /\ args.train /\ ~args.plot /\ ~dirExists
  /\ pc = "exited" /\ exitStatus = 1
  /\ logged = <<"error: Could not find directory">>

C3_WitnessNotRequired ==
  /\ args.load = <<>> /\ args.plot /\ args.train /\ ~args.save /\ ~dirExists
  /\ pc = "done"

C5_RunDirSetupIff ==
  LET wanted == args.save /\ (args.train \/ args.test \/ args.plot) IN
  /\ pc \in PastSetup =>
       /\ wanted => /\ NumCalls("save_config") = 1
                    /\ NumCalls("makedirs") = 1
                    /\ NumCalls("addHandler") = 1
       /\ ~wanted => /\ ~Called("save_config")
                     /\ ~Called("makedirs")
                     /\ ~Called("addHandler")
  /\ pc \notin PastSetup =>
       ~Called("save_config") /\ ~Called("makedirs") /\ ~Called("addHandler")

C5_Witness ==
  /\ args.save /\ args.init /\ args.train
  /\ pc = "done"
  /\ Called("save_config") /\ Called("makedirs") /\ Called("addHandler")

C5_WitnessInitOnly ==
  /\ args.save /\ args.init /\ ~args.train /\ ~args.test /\ ~args.plot
  /\ pc = "done"
  /\ ~Called("makedirs")
====
